---- MODULE Spec2Model ----
(***************************************************************************)
(* Quizzr: the SM-2 spaced-repetition scheduler                            *)
(* (backend/app/services/spaced_repetition.py,                             *)
(*  backend/app/models/spaced_repetition.py) and the operations around it. *)
(*                                                                         *)
(* Numbers.  Ease factors are Python floats; the model keeps them exactly, *)
(* in hundredths (2.5 is 250).  Every constant of the ease update is a     *)
(* multiple of 0.01, so sums and comparisons are exact in hundredths.  The *)
(* one place where binary floating point shows is round(interval * ease):  *)
(* when the exact product is a decimal tie (x.5) the float product lands   *)
(* on the tie or on either side of it, depending on the rounding error the *)
(* ease has accumulated, so round() returns x or x + 1.  The model draws   *)
(* that outcome (`up`) from BOOLEAN.                                       *)
(***************************************************************************)
EXTENDS Integers, Sequences, FiniteSets, TLC

Max(a, b) == IF a >= b THEN a ELSE b
Min(a, b) == IF a <= b THEN a ELSE b

\* SpacedRepetitionService.DEFAULT_EASE = 2.5 and MIN_EASE = 1.3, in hundredths.
DEFAULT_EASE == 250
MIN_EASE == 130

\* round(n / 100) as Python computes it on the float product; `up` decides a tie.
Round(n, up) ==
    LET fl == n \div 100
        r  == n % 100
    IN  IF r < 50 THEN fl
        ELSE IF r > 50 THEN fl + 1
        ELSE IF up THEN fl + 1 ELSE fl

\* max(0, min(5, int(quality)))
Clamp_None(quality) == quality

Clamp(quality) == Max(0, Min(5, quality))

-----------------------------------------------------------------------------
(* The pure SM-2 step, SpacedRepetitionService.calculate_next_review.       *)

EaseDelta_Flipped(q) == (5 - q) * (8 + (5 - q) * 2) - 10

\* 0.1 - (5 - q) * (0.08 + (5 - q) * 0.02), in hundredths.
EaseDelta(q) == 10 - (5 - q) * (8 + (5 - q) * 2)

NewEase_NoFloor(q, ease_factor) == ease_factor + EaseDelta(q)

NewEase_SkipOnFail(q, ease_factor) ==
    IF q < 3 THEN Max(MIN_EASE, ease_factor)
    ELSE Max(MIN_EASE, ease_factor + EaseDelta(q))

\* ef = max(cls.MIN_EASE, ef + (0.1 - (5 - q) * (0.08 + (5 - q) * 0.02)))
NewEase(q, ease_factor) == Max(MIN_EASE, ease_factor + EaseDelta(q))

MatureInterval_Fixed(prev_interval, ef, up) == Max(1, Round(6 * ef, up))

MatureInterval_OldEase(prev_interval, ef, up) ==
    Max(1, Round(Max(1, prev_interval) * (ef - 10), up))

\* next_interval = max(1, round(max(1, prev_interval) * ef))
MatureInterval(prev_interval, ef, up) ==
    Max(1, Round(Max(1, prev_interval) * ef, up))

SuccessInterval_NoLearningSteps(reps, prev_interval, ef, up) ==
    MatureInterval(prev_interval, ef, up)

\* the successful-review branch: 1, then 6, then the mature growth
SuccessInterval(reps, prev_interval, ef, up) ==
    IF reps <= 0 THEN 1
    ELSE IF reps = 1 THEN 6
    ELSE MatureInterval(prev_interval, ef, up)

FailedInterval_Keep(prev_interval) == Max(1, prev_interval)

\* if q < 3: return 1, ef
FailedInterval(prev_interval) == 1

calculate_next_review(quality, ease_factor, interval, repetitions, up) ==
    LET q  == Clamp(quality)
        ef == NewEase(q, ease_factor)
    IN  IF q < 3
        THEN [interval |-> FailedInterval(interval), ease |-> ef]
        ELSE [interval |-> SuccessInterval(repetitions, interval, ef, up),
              ease |-> ef]

-----------------------------------------------------------------------------
(* The stored state: the cards and spaced_repetition_schedules tables, the  *)
(* wall clock, and one SQLAlchemy session per request in flight.            *)
(*                                                                          *)
(* Time is counted in clock ticks; TicksPerDay ticks make a day.  The       *)
(* database is read-committed: a session reads committed rows, its own      *)
(* INSERT and UPDATEs become visible to others at its commit, an UPDATE     *)
(* writes only the columns whose value differs from the value loaded (the   *)
(* ORM's net-change detection), and an INSERT that meets another session's  *)
(* uncommitted INSERT of the same unique key waits for it.  The sessions    *)
(* are created with autoflush off (database.py), so rows are written at the *)
(* explicit flush calls only.                                               *)

Users == {1, 2}
Cards == {1, 2}
Procs == {1, 2}

\* the card ids a caller passes: those of the cards table and one that no card has
CardIds == Cards \cup {3}

\* deck of each card and owner of each deck (cards.deck_id, decks.user_id)
DeckOf == <<1, 2>>
DeckOwner == <<1, 1>>

TicksPerDay == 2
MaxDays == 10            \* the clock stops after this many days
MaxMaintenance == 1     \* maintenance runs in one behaviour

MaxTime == MaxDays * TicksPerDay

None == 0 - 1           \* NULL

\* RATING_MAP of services/spaced_repetition.py
RATING_MAP == [again |-> 0, hard |-> 2, good |-> 4, easy |-> 5]

\* rating_map of routers/decks.py review_card
rating_map == [again |-> 0, hard |-> 1, good |-> 2, easy |-> 3]

Ratings == {"again", "hard", "good", "easy"}

\* quality = RATING_MAP.get(rating.lower(), 4)
ServiceQuality(rating) == IF rating \in Ratings THEN RATING_MAP[rating] ELSE 4

\* quality = rating_map.get(review.rating, 2)
RouterQuality(rating) == IF rating \in Ratings THEN rating_map[rating] ELSE 2

NoRow == [id |-> 0, user_id |-> 0, card_id |-> 0, easiness |-> 0, interval |-> 0,
          repetitions |-> 0, last_quality |-> None, last_reviewed |-> None,
          next_review |-> 0]

\* SpacedRepetitionSchedule(user_id, card_id, easiness=2.5, interval=1,
\*                          repetitions=0, next_review=datetime.utcnow())
NewSchedule(id, user_id, card_id, t) ==
    [id |-> id, user_id |-> user_id, card_id |-> card_id, easiness |-> 250,
     interval |-> 1, repetitions |-> 0, last_quality |-> None,
     last_reviewed |-> None, next_review |-> t]

UpdateEase_NoFloor(q, easiness) == easiness + EaseDelta(q)

\* self.easiness = max(1.3, self.easiness + (0.1 - (5 - quality) * (0.08 + ...)))
UpdateEase(q, easiness) == Max(130, easiness + EaseDelta(q))

\* SpacedRepetitionSchedule.update_schedule: t_last and t_next are the clock
\* readings of its two datetime.utcnow() calls that set last_reviewed and
\* next_review
UpdateInterval_NoLearningSteps(self, q, e, up) ==
    IF q < 3 THEN 1 ELSE Round(self.interval * e, up)

UpdateInterval_StepsSwapped(self, q, e, up) ==
    IF q < 3 THEN 1
    ELSE IF self.repetitions = 0 THEN 6
    ELSE IF self.repetitions = 1 THEN 1
    ELSE Round(self.interval * e, up)

\* the interval branches of update_schedule, e the easiness already updated
UpdateInterval(self, q, e, up) ==
    IF q < 3 THEN 1
    ELSE IF self.repetitions = 0 THEN 1
    ELSE IF self.repetitions = 1 THEN 6
    ELSE Round(self.interval * e, up)

update_schedule(self, quality, t_last, t_next, up) ==
    LET q   == Clamp(quality)
        e   == UpdateEase(q, self.easiness)
        ivl == UpdateInterval(self, q, e, up)
        rep == IF q < 3 THEN 0 ELSE self.repetitions + 1
    IN  [self EXCEPT !.easiness = e, !.interval = ivl, !.repetitions = rep,
                     !.last_quality = q, !.last_reviewed = t_last,
                     !.next_review = t_next + ivl * TicksPerDay]

\* datetime.max (9999-12-31) on the model's clock, whose day 0 is a day of
\* late 2026: datetime + timedelta raises OverflowError past it
DaysToDateMax == 2912135
DateMax == DaysToDateMax * TicksPerDay

\* update_schedule raised at its last assignment: the new next_review is not
\* a date
OverflowError(schedule) == schedule.next_review > DateMax

NoCard == [deck_id |-> 0, is_suspended |-> FALSE,
           times_studied |-> 0, times_correct |-> 0, times_incorrect |-> 0,
           is_mastered |-> FALSE]

UpdateCard_KeepMastered(card, quality, schedule) ==
    IF quality >= 3
    THEN [card EXCEPT !.times_studied = @ + 1, !.times_correct = @ + 1,
                      !.is_mastered = IF schedule.interval >= 21 THEN TRUE ELSE @]
    ELSE [card EXCEPT !.times_studied = @ + 1, !.times_incorrect = @ + 1]

\* the card statistics block of record_review / process_review
UpdateCard(card, quality, schedule) ==
    IF quality >= 3
    THEN [card EXCEPT !.times_studied = @ + 1, !.times_correct = @ + 1,
                      !.is_mastered = IF schedule.interval >= 21 THEN TRUE ELSE @]
    ELSE [card EXCEPT !.times_studied = @ + 1, !.times_incorrect = @ + 1,
                      !.is_mastered = FALSE]

\* UPDATE ... SET <the columns that changed since they were loaded>
NetChange(stored, loaded, current) ==
    [c \in DOMAIN stored |-> IF current[c] # loaded[c] THEN current[c] ELSE stored[c]]

\* a session: the request it serves (op, user_id, card_id, rating, quality), where
\* the handler stands (pc), and the ORM objects it holds with the column values
\* they were loaded with
Idle == [pc |-> "idle", op |-> "none", user_id |-> 0, card_id |-> 0,
         rating |-> "none", quality |-> 0,
         schedule |-> NoRow, loaded |-> NoRow, created |-> FALSE,
         card |-> NoCard, cardLoaded |-> NoCard, hasCard |-> FALSE]

\* what has been recorded for a card so far, in commit order: the reviews
\* completed (done), those of them with quality < 3 (failed), the successful
\* ones since the last failed one (streak), and the number of reviews when all
\* of them had quality 4 and nothing else has written the schedule (onlyGood)
NoReviews == [done |-> 0, failed |-> 0, streak |-> 0, onlyGood |-> 0]

Recorded(h, quality) ==
    [done     |-> h.done + 1,
     failed   |-> IF quality < 3 THEN h.failed + 1 ELSE h.failed,
     streak   |-> IF quality < 3 THEN 0 ELSE h.streak + 1,
     onlyGood |-> IF quality = 4 /\ h.onlyGood = h.done THEN h.onlyGood + 1 ELSE None]

\* the system
VARIABLES now, cards, schedules, nextId, sess, ops, maint, reviews
\* one call of the pure step and what it returned
VARIABLES call, result

sysVars == <<now, cards, schedules, nextId, sess, ops, maint, reviews>>
pureVars == <<call, result>>
vars == <<now, cards, schedules, nextId, sess, ops, maint, reviews, call, result>>

SysInit ==
    /\ now = 0
    /\ cards = [c \in Cards |-> [NoCard EXCEPT !.deck_id = DeckOf[c]]]
    /\ schedules = {}
    /\ nextId = 1
    /\ sess = [p \in Procs |-> Idle]
    /\ ops = 0
    /\ maint = 0
    /\ reviews = [c \in CardIds |-> NoReviews]

InFlight(p) == sess[p].pc \in {"select", "insert", "update", "commit", "raise"}

\* a new request is served by the first free session
FirstFree(p) ==
    /\ sess[p].pc = "idle"
    /\ \A o \in Procs : o < p => sess[o].pc # "idle"

Begin(p, op, user_id, card_id, rating, quality) ==
    /\ FirstFree(p)
    /\ ops' = ops + 1
    /\ sess' = [sess EXCEPT ![p] =
                  [Idle EXCEPT !.pc = "select", !.op = op, !.user_id = user_id,
                               !.card_id = card_id, !.rating = rating,
                               !.quality = quality]]
    /\ UNCHANGED <<now, cards, schedules, nextId, maint, reviews, call, result>>

\* a caller runs SpacedRepetitionService.get_or_create_schedule and commits
BeginGetOrCreate(p, user_id, card_id) ==
    Begin(p, "get_or_create", user_id, card_id, "none", 0)

\* SpacedRepetitionService.record_review(user_id, card_id, rating)
BeginRecordReview(p, user_id, card_id, rating) ==
    Begin(p, "record_review", user_id, card_id, rating, ServiceQuality(rating))

\* SpacedRepetitionService.process_review(user_id, card_id, quality)
BeginProcessReview(p, user_id, card_id, quality) ==
    Begin(p, "process_review", user_id, card_id, "none", quality)

\* POST /decks/{deck_id}/cards/{card_id}/review: the deck must belong to the
\* user and hold the card (else 404); the card it selects stays in the
\* session's identity map; the rating is mapped and process_review called
BeginReviewCard(p, user_id, deck_id, card_id, rating) ==
    /\ FirstFree(p)
    /\ ops' = ops + 1
    /\ sess' = [sess EXCEPT ![p] =
                  IF /\ DeckOwner[deck_id] = user_id
                     /\ card_id \in Cards
                     /\ DeckOf[card_id] = deck_id
                  THEN [Idle EXCEPT !.pc = "select", !.op = "review_card",
                                    !.user_id = user_id, !.card_id = card_id,
                                    !.rating = rating,
                                    !.quality = RouterQuality(rating),
                                    !.card = cards[card_id],
                                    !.cardLoaded = cards[card_id], !.hasCard = TRUE]
                  ELSE [Idle EXCEPT !.pc = "failed", !.op = "review_card",
                                    !.user_id = user_id, !.card_id = card_id,
                                    !.rating = rating]]
    /\ UNCHANGED <<now, cards, schedules, nextId, maint, reviews, call, result>>

AfterSchedule(p) == IF sess[p].op = "get_or_create" THEN "commit" ELSE "update"

\* review_card goes on after process_review with
\* current_user.total_cards_studied += 1, an attribute the User model does not
\* have: it raises before its session.commit()
AfterReview(p) == IF sess[p].op = "review_card" THEN "raise" ELSE "commit"

\* get_or_create_schedule: the SELECT by (user_id, card_id)
SelectSchedule(p) ==
    /\ sess[p].pc = "select"
    /\ LET found == {r \in schedules : r.user_id = sess[p].user_id
                                        /\ r.card_id = sess[p].card_id}
       IN  IF found = {}
           THEN sess' = [sess EXCEPT ![p].pc = "insert"]
           ELSE \E r \in found :
                   sess' = [sess EXCEPT ![p].pc = AfterSchedule(p),
                                        ![p].schedule = r, ![p].loaded = r]
    /\ UNCHANGED <<now, cards, schedules, nextId, ops, maint, reviews, call, result>>

InsertSchedule_NoUnique(p) ==
    /\ sess[p].pc = "insert"
    /\ LET row == NewSchedule(nextId, sess[p].user_id, sess[p].card_id, now)
       IN  sess' = [sess EXCEPT ![p].pc = AfterSchedule(p),
                                ![p].schedule = row, ![p].loaded = row,
                                ![p].created = TRUE]
    /\ nextId' = nextId + 1
    /\ UNCHANGED <<now, cards, schedules, ops, maint, reviews, call, result>>

\* get_or_create_schedule: db.add, flush (the INSERT) and refresh.  card_id is
\* declared unique=True: the INSERT waits for an uncommitted INSERT of the same
\* card_id and fails with IntegrityError when a committed row holds it.  The
\* function does not look the card up: card_id is a foreign key to cards.id,
\* which PostgreSQL enforces (IntegrityError) and SQLite, the default database,
\* opened without PRAGMA foreign_keys, does not (`enforced`).
InsertSchedule(p) ==
    /\ sess[p].pc = "insert"
    /\ \A o \in Procs \ {p} :
          ~(InFlight(o) /\ sess[o].created /\ sess[o].card_id = sess[p].card_id)
    /\ \E enforced \in BOOLEAN :
          IF \/ \E r \in schedules : r.card_id = sess[p].card_id
             \/ enforced /\ sess[p].card_id \notin Cards
          THEN /\ sess' = [sess EXCEPT ![p].pc = "failed"]
               /\ UNCHANGED nextId
          ELSE /\ LET row == NewSchedule(nextId, sess[p].user_id, sess[p].card_id, now)
                  IN  sess' = [sess EXCEPT ![p].pc = AfterSchedule(p),
                                           ![p].schedule = row, ![p].loaded = row,
                                           ![p].created = TRUE]
               /\ nextId' = nextId + 1
    /\ UNCHANGED <<now, cards, schedules, ops, maint, reviews, call, result>>

\* record_review / process_review after get_or_create_schedule:
\* schedule.update_schedule(quality), the SELECT of the card (the object of the
\* identity map when the session already holds it) and the card statistics.
\* The clock moves on by `drift` ticks between the utcnow() calls of
\* update_schedule.  When the SELECT finds no card (`if card:`) the statistics
\* are skipped.
ApplyReview(p, drift) ==
    /\ sess[p].pc = "update"
    /\ \E up \in BOOLEAN :
          /\ now + drift <= MaxTime
          /\ now' = now + drift
          /\ LET schedule == update_schedule(sess[p].schedule, sess[p].quality,
                                             now, now + drift, up)
                 found    == sess[p].hasCard \/ sess[p].card_id \in Cards
                 loaded   == IF sess[p].hasCard THEN sess[p].cardLoaded
                             ELSE IF found THEN cards[sess[p].card_id] ELSE NoCard
                 card     == IF sess[p].hasCard THEN sess[p].card
                             ELSE IF found THEN cards[sess[p].card_id] ELSE NoCard
             IN  sess' = [sess EXCEPT ![p].pc = IF OverflowError(schedule)
                                                THEN "raise"
                                                ELSE AfterReview(p),
                                      ![p].schedule = schedule,
                                      ![p].cardLoaded = loaded,
                                      ![p].hasCard = found,
                                      ![p].card = IF found
                                                  THEN UpdateCard(card, sess[p].quality,
                                                                  schedule)
                                                  ELSE NoCard]
    /\ UNCHANGED <<cards, schedules, nextId, ops, maint, reviews, call, result>>

\* the caller's commit: the row inserted by this session or the UPDATE of the
\* loaded row, and the UPDATE of the card
Commit(p) ==
    /\ sess[p].pc = "commit"
    /\ schedules' =
          IF sess[p].created THEN schedules \cup {sess[p].schedule}
          ELSE {IF r.id = sess[p].schedule.id
                THEN NetChange(r, sess[p].loaded, sess[p].schedule)
                ELSE r : r \in schedules}
    /\ cards' = IF sess[p].hasCard
                THEN [cards EXCEPT ![sess[p].card_id] =
                         NetChange(@, sess[p].cardLoaded, sess[p].card)]
                ELSE cards
    /\ reviews' = IF sess[p].op = "get_or_create" THEN reviews
                  ELSE [reviews EXCEPT ![sess[p].card_id] =
                           Recorded(@, sess[p].quality)]
    /\ sess' = [sess EXCEPT ![p] =
                  [Idle EXCEPT !.pc = "done",
                               !.op = sess[p].op, !.user_id = sess[p].user_id,
                               !.card_id = sess[p].card_id,
                               !.rating = sess[p].rating,
                               !.quality = sess[p].quality]]
    /\ UNCHANGED <<now, nextId, ops, maint, call, result>>

\* get_db: an exception leaving the handler rolls the session back
Rollback(p) ==
    /\ sess[p].pc = "raise"
    /\ sess' = [sess EXCEPT ![p] =
                  [Idle EXCEPT !.pc = "failed",
                               !.op = sess[p].op, !.user_id = sess[p].user_id,
                               !.card_id = sess[p].card_id,
                               !.rating = sess[p].rating,
                               !.quality = sess[p].quality]]
    /\ UNCHANGED <<now, cards, schedules, nextId, ops, maint, reviews, call, result>>

\* the request is over and its session closed
Finish(p) ==
    /\ sess[p].pc \in {"done", "failed"}
    /\ sess' = [sess EXCEPT ![p] = Idle]
    /\ UNCHANGED <<now, cards, schedules, nextId, ops, maint, reviews, call, result>>

\* tasks/maintenance_tasks.py recalculate_spaced_repetition
Penalty(r, t) ==
    IF r.next_review < t /\ (t - r.next_review) \div TicksPerDay > 7
    THEN [r EXCEPT !.easiness = Max(130, r.easiness - 10)]
    ELSE r

Maintenance ==
    /\ maint < MaxMaintenance
    /\ maint' = maint + 1
    /\ schedules' = {Penalty(r, now) : r \in schedules}
    /\ reviews' = [c \in CardIds |->
                     IF \E r \in schedules : r.card_id = c /\ Penalty(r, now) # r
                     THEN [reviews[c] EXCEPT !.onlyGood = None]
                     ELSE reviews[c]]
    /\ UNCHANGED <<now, cards, nextId, sess, ops, call, result>>

\* time passes
Tick(d) ==
    /\ now + d <= MaxTime
    /\ now' = now + d
    /\ UNCHANGED <<cards, schedules, nextId, sess, ops, maint, reviews, call, result>>

-----------------------------------------------------------------------------
(* Inputs of the pure step.                                                 *)

QualityMargin == 1      \* qualities tried beyond 0..5 on either side
MinEaseIn == 110
MaxEaseIn == 290
MaxIntervalIn == 12
MaxRepsIn == 3

QualityIn == (0 - QualityMargin)..(5 + QualityMargin)
EaseIn == MinEaseIn..MaxEaseIn
IntervalIn == (0 - 1)..MaxIntervalIn
RepsIn == (0 - 1)..MaxRepsIn

NoResult == [interval |-> 0, ease |-> 0]

PureInit ==
    /\ call \in [quality : QualityIn, ease_factor : EaseIn,
                 interval : IntervalIn, repetitions : RepsIn, up : BOOLEAN]
    /\ result = NoResult
    /\ SysInit

\* one call of calculate_next_review
Calculate ==
    /\ result = NoResult
    /\ result' = calculate_next_review(call.quality, call.ease_factor,
                                       call.interval, call.repetitions, call.up)
    /\ UNCHANGED <<call, sysVars>>

\* the caller feeds the returned interval and ease into the next call, as the
\* loops of tests/test_spaced_repetition.py do (repetitions kept or counted up)
FeedBack ==
    /\ result # NoResult
    /\ result.ease \in EaseIn
    /\ result.interval \in IntervalIn
    /\ \E q \in QualityIn, r \in {call.repetitions, call.repetitions + 1}, u \in BOOLEAN :
          /\ r \in RepsIn
          /\ call' = [quality |-> q, ease_factor |-> result.ease,
                      interval |-> result.interval, repetitions |-> r, up |-> u]
    /\ result' = NoResult
    /\ UNCHANGED sysVars

PureNext == Calculate \/ FeedBack

SpecPure == PureInit /\ [][PureNext]_vars

-----------------------------------------------------------------------------
(* The system.                                                              *)
(*   Spec     two sessions running concurrently: get_or_create_schedule and *)
(*            record_review calls of two learners on one card;              *)
(*   SpecApi  every operation with every input, two learners, two cards,    *)
(*            the requests served one at a time;                            *)
(*   SpecSeq  one learner reviewing one card through record_review, one     *)
(*            request at a time, more requests.                             *)
(* Maintenance runs and long waits happen at any point of SpecApi and       *)
(* SpecSeq; in SpecSeq the clock also moves between the two clock readings  *)
(* of update_schedule.                                                      *)

Init ==
    /\ SysInit
    /\ call = [quality |-> 0, ease_factor |-> 250, interval |-> 1,
               repetitions |-> 0, up |-> FALSE]
    /\ result = NoResult

LongWait == 9 * TicksPerDay
Wait == Tick(LongWait)

Select == \E p \in Procs : SelectSchedule(p)
Insert == \E p \in Procs : InsertSchedule(p)
Apply == \E p \in Procs, drift \in {0, 1} : ApplyReview(p, drift)
ApplyAtOnce == \E p \in Procs : ApplyReview(p, 0)
CommitSession == \E p \in Procs : Commit(p)
RollbackSession == \E p \in Procs : Rollback(p)
Close == \E p \in Procs : Finish(p)

AllIdle == \A p \in Procs : sess[p].pc = "idle"

\* ---- Spec
MaxOps == 5             \* requests begun in one behaviour of Spec
ConcurrentRatingIn == {"again", "good"}

GetOrCreateCall ==
    \E p \in Procs, u \in Users :
       ops < MaxOps /\ BeginGetOrCreate(p, u, 1)

RecordReviewCall ==
    \E p \in Procs, u \in Users, rating \in ConcurrentRatingIn :
       ops < MaxOps /\ BeginRecordReview(p, u, 1, rating)

Next ==
    \/ GetOrCreateCall
    \/ RecordReviewCall
    \/ Select
    \/ Insert
    \/ ApplyAtOnce
    \/ CommitSession
    \/ Close

Spec == Init /\ [][Next]_vars

\* ---- SpecApi
MaxOpsApi == 2          \* requests begun in one behaviour of SpecApi
RatingIn == Ratings \cup {"other"}
ProcessQualityIn == {0 - 1, 6}
Decks == {1, 2}

ApiGetOrCreate ==
    \E p \in Procs, u \in Users, c \in Cards :
       AllIdle /\ ops < MaxOpsApi /\ BeginGetOrCreate(p, u, c)

ApiRecordReview ==
    \E p \in Procs, u \in Users, c \in Cards, rating \in RatingIn :
       AllIdle /\ ops < MaxOpsApi /\ BeginRecordReview(p, u, c, rating)

ApiProcessReview ==
    \E p \in Procs, u \in Users, c \in Cards, q \in ProcessQualityIn :
       AllIdle /\ ops < MaxOpsApi /\ BeginProcessReview(p, u, c, q)

ApiReviewCard ==
    \E p \in Procs, u \in Users, d \in Decks, c \in Cards, rating \in RatingIn :
       AllIdle /\ ops < MaxOpsApi /\ BeginReviewCard(p, u, d, c, rating)

\* the same calls by learner 1 for a card id that no card has
ApiMissingCard ==
    \E p \in Procs, c \in CardIds \ Cards :
       /\ AllIdle
       /\ ops < MaxOpsApi
       /\ \/ BeginGetOrCreate(p, 1, c)
          \/ BeginRecordReview(p, 1, c, "good")
          \/ BeginProcessReview(p, 1, c, 4)
          \/ BeginReviewCard(p, 1, 1, c, "good")

NextApi ==
    \/ ApiGetOrCreate
    \/ ApiRecordReview
    \/ ApiProcessReview
    \/ ApiReviewCard
    \/ ApiMissingCard
    \/ Select
    \/ Insert
    \/ ApplyAtOnce
    \/ CommitSession
    \/ RollbackSession
    \/ Close
    \/ Maintenance
    \/ Wait

SpecApi == Init /\ [][NextApi]_vars

\* ---- SpecSeq
MaxOpsSeq == 6          \* requests begun in one behaviour of SpecSeq
SeqRatingIn == {"again", "good", "easy"}

SeqRecordReview ==
    \E p \in Procs, rating \in SeqRatingIn :
       AllIdle /\ ops < MaxOpsSeq /\ BeginRecordReview(p, 1, 1, rating)

NextSeq ==
    \/ SeqRecordReview
    \/ Select
    \/ Insert
    \/ Apply
    \/ CommitSession
    \/ Close
    \/ Maintenance
    \/ Wait

SpecSeq == Init /\ [][NextSeq]_vars

-----------------------------------------------------------------------------
(* The pure step, checked under SpecPure.                                   *)

Called == result # NoResult

\* the quality as the claims count it: clamped to 0..5
ClampedQuality == IF call.quality < 0 THEN 0 ELSE IF call.quality > 5 THEN 5 ELSE call.quality

\* the ease change in hundredths for q = 0, 1, 2, 3, 4, 5
EaseChange == <<0 - 80, 0 - 54, 0 - 32, 0 - 14, 0, 10>>

C3_FailedResets ==
    Called /\ call.quality < 3 => result.interval = 1

C3_Witness ==
    /\ Called
    /\ call.quality < 3
    /\ call.interval = MaxIntervalIn
    /\ call.repetitions = MaxRepsIn
    /\ result.interval = 1

\* C4: with quality >= 3 calculate_next_review returns the interval 1 when
\* the incoming repetitions <= 0, 6 when they are 1, and otherwise
\* round(max(1, interval) * new_ease) with the ease already updated;
\* (4, 2.5, 1, 0) gives 1, (4, 2.5, 1, 1) gives 6 and (4, 2.5, 6, 2) gives 15.
C4_SuccessInterval ==
    Called /\ call.quality >= 3 =>
       /\ call.repetitions <= 0 => result.interval = 1
       /\ call.repetitions = 1 => result.interval = 6
       /\ call.repetitions > 1 =>
             result.interval = Round(Max(1, call.interval) * result.ease, call.up)
       /\ (call.quality = 4 /\ call.ease_factor = 250) =>
             /\ (call.interval = 1 /\ call.repetitions = 0 => result.interval = 1)
             /\ (call.interval = 1 /\ call.repetitions = 1 => result.interval = 6)
             /\ (call.interval = 6 /\ call.repetitions = 2 => result.interval = 15)

C4_Witness ==
    /\ Called
    /\ call.quality = 4
    /\ call.ease_factor = 250
    /\ call.interval = 6
    /\ call.repetitions = 2
    /\ result.interval = 15

-----------------------------------------------------------------------------
(* The stored schedules and cards.                                          *)

ScheduleOf(c) == {r \in schedules : r.card_id = c}

MaxFeedBack == 4        \* quality-0 calls fed back into the next call

RECURSIVE FedBackEase(_, _, _, _, _)
\* the ease after n calls with quality 0, each fed the result of the one before
FedBackEase(n, ease_factor, interval, repetitions, up) ==
    IF n = 0 THEN ease_factor
    ELSE LET r == calculate_next_review(0, ease_factor, interval, repetitions, up)
         IN  FedBackEase(n - 1, r.ease, r.interval, 0, up)

\* C1: the ease factor never falls below 1.3: calculate_next_review returns an
\* ease >= 1.3 for every quality in 0..5 and every ease_factor, interval and
\* repetitions, also applied repeatedly with quality 0 on its own results, and
\* every stored schedule has easiness >= 1.3 in every reachable state.  The
\* first two conjuncts speak of the function alone and are evaluated in the
\* initial state.
C1_EaseFloor ==
    /\ (ops = 0 /\ now = 0 /\ maint = 0) =>
          \A q \in 0..5, e \in EaseIn, i \in IntervalIn, r \in RepsIn, up \in BOOLEAN :
             calculate_next_review(q, e, i, r, up).ease >= 130
    /\ (ops = 0 /\ now = 0 /\ maint = 0) =>
          \A n \in 1..MaxFeedBack, e \in EaseIn, up \in BOOLEAN :
             FedBackEase(n, e, MaxIntervalIn, MaxRepsIn, up) >= 130
    /\ \A r \in schedules : r.easiness >= 130

\* a stored schedule that two failed reviews have brought to the floor
C1_Witness ==
    \E r \in schedules :
       /\ r.easiness = 130
       /\ reviews[r.card_id].failed >= 2

C6_Streak ==
    \A r \in schedules :
       /\ r.repetitions >= 0
       /\ r.repetitions = reviews[r.card_id].streak

\* C7: a schedule whose last_reviewed is set has
\* next_review = last_reviewed + interval days, and a schedule never reviewed
\* has last_reviewed and last_quality unset.
C7_NextReviewDate ==
    \A r \in schedules :
       /\ r.last_reviewed # None =>
             r.next_review = r.last_reviewed + r.interval * TicksPerDay
       /\ reviews[r.card_id].done = 0 =>
             r.last_reviewed = None /\ r.last_quality = None

\* C8: a card is flagged mastered exactly when its schedule has
\* interval >= 21, and never while its repetitions are below 3.
C8_Mastered ==
    \A c \in Cards :
       /\ cards[c].is_mastered <=> \E r \in ScheduleOf(c) : r.interval >= 21
       /\ cards[c].is_mastered => \A r \in ScheduleOf(c) : r.repetitions >= 3

\* the quality the ratings stand for
ClaimedQuality == [again |-> 0, hard |-> 2, good |-> 4, easy |-> 5]

\* C9: a review submitted with rating again, hard, good or easy is handled
\* with quality 0, 2, 4 or 5 on every path that accepts a rating.
C9_RatingQuality ==
    \A p \in Procs :
       InFlight(p) /\ sess[p].rating \in Ratings =>
          sess[p].quality = ClaimedQuality[sess[p].rating]

\* C10: no review is lost: the card's counters count every completed review,
\* and the stored schedule is one that reviews applied one after the other
\* leave, its repetitions 0 exactly when the last quality was below 3.
C10_NoLostUpdate ==
    \A c \in Cards :
       /\ cards[c].times_studied = reviews[c].done
       /\ cards[c].times_incorrect = reviews[c].failed
       /\ cards[c].times_correct = reviews[c].done - reviews[c].failed
       /\ \A r \in ScheduleOf(c) :
             r.last_reviewed # None => (r.repetitions = 0 <=> r.last_quality < 3)

\* C11: at most one schedule exists per (owner, item) pair, also when two
\* calls for the pair both read "no schedule" before either inserts: the call
\* that loses the race fails (IntegrityError on the unique card_id) or holds
\* the committed schedule.
C11_OneSchedulePerPair ==
    /\ \A r1, r2 \in schedules :
          r1.user_id = r2.user_id /\ r1.card_id = r2.card_id => r1 = r2
    /\ \A p \in Procs :
          sess[p].pc \in {"update", "commit"} /\ ~sess[p].created =>
             \E r \in schedules : r.id = sess[p].schedule.id

\* a call that read "no schedule" for a pair whose schedule another call has
\* committed since, and failed on its INSERT
C11_Witness ==
    \E p \in Procs :
       /\ sess[p].pc = "failed"
       /\ sess[p].schedule = NoRow
       /\ \E r \in schedules :
             r.user_id = sess[p].user_id /\ r.card_id = sess[p].card_id

ReviewOps == {"record_review", "process_review", "review_card"}

\* C12: recording a review for (o, i) succeeds regardless of which other
\* schedules exist, another owner's schedule for the same item included, and
\* writes no schedule of another item or owner.
C12_Independent ==
    /\ \A p \in Procs :
          sess[p].op \in {"record_review", "process_review"} => sess[p].pc # "failed"
    /\ \A p \in Procs :
          sess[p].pc = "commit" /\ sess[p].op \in ReviewOps =>
             /\ sess[p].schedule.user_id = sess[p].user_id
             /\ sess[p].schedule.card_id = sess[p].card_id

\* C13: get_or_create_schedule for a pair without schedule creates one with
\* ease 2.5, interval 1, repetitions 0, nothing reviewed and next_review the
\* time of the call; for a pair with a schedule it returns that schedule
\* unchanged and creates nothing.
C13_GetOrCreate ==
    \A p \in Procs :
       sess[p].op = "get_or_create" =>
          /\ sess[p].pc # "failed"
          /\ sess[p].pc = "commit" =>
                /\ sess[p].schedule.user_id = sess[p].user_id
                /\ sess[p].schedule.card_id = sess[p].card_id
                /\ sess[p].created =>
                      /\ sess[p].schedule.easiness = 250
                      /\ sess[p].schedule.interval = 1
                      /\ sess[p].schedule.repetitions = 0
                      /\ sess[p].schedule.last_reviewed = None
                      /\ sess[p].schedule.last_quality = None
                      /\ sess[p].schedule.next_review <= now
                      /\ \A r \in schedules :
                            /\ r.id # sess[p].schedule.id
                            /\ ~(r.user_id = sess[p].user_id /\ r.card_id = sess[p].card_id)
                /\ ~sess[p].created =>
                      /\ sess[p].schedule = sess[p].loaded
                      /\ \E r \in schedules : r.id = sess[p].schedule.id
          /\ sess[p].pc = "done" =>
                \E r \in schedules :
                   r.user_id = sess[p].user_id /\ r.card_id = sess[p].card_id

\* C14: a call with an item id that no card has fails and no schedule is
\* created for it: every schedule references an existing card.
C14_MissingCard ==
    /\ \A r \in schedules : r.card_id \in Cards
    /\ \A p \in Procs :
          sess[p].card_id \notin Cards =>
             sess[p].pc \in {"idle", "select", "insert", "failed"}

-----------------------------------------------------------------------------
(* The queries.  They read the tables and the clock and write nothing; a    *)
(* query the database may answer in more than one way (rows of equal sort   *)
(* key, LIMIT without ORDER BY) is the set of its possible answers.         *)

\* the schedule of a card that belongs to the user (card_id is unique)
ScheduleFor(user_id, c) == {r \in schedules : r.user_id = user_id /\ r.card_id = c}

Range(s) == {s[i] : i \in DOMAIN s}

\* ORDER BY key LIMIT limit over the rows S (key: the sort key of each row):
\* every order the database may yield them in, rows of equal key either way
RECURSIVE OrderByLimit(_, _, _)
OrderByLimit(S, key, limit) ==
    IF limit <= 0 \/ S = {} THEN {<<>>}
    ELSE UNION {{<<r>> \o rest : rest \in OrderByLimit(S \ {r}, key, limit - 1)} :
                  r \in {x \in S : \A y \in S : key[x] <= key[y]}}

\* LIMIT limit over the rows S, in whatever order the database yields them
RECURSIVE Limit(_, _)
Limit(S, limit) ==
    IF limit <= 0 \/ S = {} THEN {<<>>}
    ELSE UNION {{<<r>> \o rest : rest \in Limit(S \ {r}, limit - 1)} : r \in S}

DueRows_AnyOwner(user_id, deck_id) ==
    {r \in schedules :
       /\ r.card_id \in DOMAIN cards
       /\ r.next_review <= now
       /\ ~cards[r.card_id].is_suspended
       /\ deck_id # 0 => cards[r.card_id].deck_id = deck_id}

\* get_due_cards: the rows of the join of cards and schedules that pass the
\* WHERE clauses (`if deck_id:` is false for None and for 0)
DueRows(user_id, deck_id) ==
    {r \in schedules :
       /\ r.card_id \in DOMAIN cards
       /\ r.user_id = user_id
       /\ r.next_review <= now
       /\ ~cards[r.card_id].is_suspended
       /\ deck_id # 0 => cards[r.card_id].deck_id = deck_id}

\* get_due_cards: the cards of the rows, ordered by next_review, limit of them
get_due_cards(user_id, deck_id, limit) ==
    {[i \in DOMAIN rows |-> rows[i].card_id] :
        rows \in OrderByLimit(DueRows(user_id, deck_id),
                              [r \in DueRows(user_id, deck_id) |-> r.next_review],
                              limit)}

NewCards_NoSchedule(user_id, deck_id) ==
    {c \in DOMAIN cards :
       /\ cards[c].deck_id = deck_id
       /\ ~cards[c].is_suspended
       /\ \A r \in schedules : r.card_id # c}

\* get_new_cards: the WHERE clauses, the subquery being the card ids of the
\* user's schedules
NewCards(user_id, deck_id) ==
    {c \in DOMAIN cards :
       /\ cards[c].deck_id = deck_id
       /\ ~cards[c].is_suspended
       /\ c \notin {r.card_id : r \in {x \in schedules : x.user_id = user_id}}}

get_new_cards(user_id, deck_id, limit) == Limit(NewCards(user_id, deck_id), limit)

\* get_deck_stats: the cards of the deck outer-joined with the user's
\* schedules, and the three aggregates, the count of new cards, the arithmetic
get_deck_stats(user_id, deck_id) ==
    LET rows     == {c \in DOMAIN cards :
                       cards[c].deck_id = deck_id /\ ~cards[c].is_suspended}
        total    == Cardinality(rows)
        mastered == Cardinality({c \in rows : cards[c].is_mastered})
        due      == Cardinality({c \in rows :
                       \E r \in ScheduleFor(user_id, c) : r.next_review <= now})
        new      == Cardinality({c \in rows : ScheduleFor(user_id, c) = {}})
    IN  [total |-> total, mastered |-> mastered, due |-> due, new |-> new,
         learning |-> total - mastered - new]

\* get_forecast: the body of its loop evaluates func.count(...), and the
\* module imports select and and_ only (func is imported inside
\* get_deck_stats): the first iteration raises NameError
get_forecast(user_id, days) ==
    IF days > 0
    THEN [error |-> "NameError", forecast |-> <<>>]
    ELSE [error |-> "none", forecast |-> <<>>]

-----------------------------------------------------------------------------
(* SpecQuery: the queries asked of a database that earlier requests have    *)
(* filled.  The database is drawn in the initial state: three cards in two  *)
(* decks, each suspended or not (DeckService.update_card), each with the    *)
(* schedule and the statistics that one learner's requests at one instant   *)
(* left (get_or_create_schedule alone, or reviews of one quality through    *)
(* record_review), built with the operators the requests are modelled with. *)

QueryCards == CardIds
QueryDeckOf == <<1, 1, 2>>
MasterReviews == 5      \* "easy" reviews in a row in the longest history drawn
MaxLimit == 2           \* limit arguments 0..MaxLimit
MaxForecastDays == 2    \* days arguments 0..MaxForecastDays

\* n committed reviews of one quality at instant t
RECURSIVE Reviewed(_, _, _, _)
Reviewed(st, n, quality, t) ==
    IF n = 0 THEN st
    ELSE LET schedule == update_schedule(st.schedule, quality, t, t, FALSE)
         IN  Reviewed([schedule |-> schedule,
                       card     |-> UpdateCard(st.card, quality, schedule),
                       reviews  |-> Recorded(st.reviews, quality)],
                      n - 1, quality, t)

\* what the requests of a history leave for card c
Stored(c, h, suspended) ==
    Reviewed([schedule |-> NewSchedule(c, h.user_id, c, h.t),
              card     |-> [NoCard EXCEPT !.deck_id = QueryDeckOf[c],
                                          !.is_suspended = suspended],
              reviews  |-> NoReviews],
             h.n, h.quality, h.t)

Histories ==
    [user_id : Users, n : {0}, quality : {0}, t : {0}]
    \cup [user_id : Users, n : {1}, quality : {4}, t : {0, TicksPerDay}]
    \cup [user_id : Users, n : {MasterReviews}, quality : {5}, t : {0}]

NoHistory == [user_id |-> 0, n |-> 0, quality |-> 0, t |-> 0]

NoQuery == [op |-> "none", user_id |-> 0, deck_id |-> 0, limit |-> 0]

QueryInit ==
    /\ now = TicksPerDay
    /\ \E h \in [QueryCards -> Histories \cup {NoHistory}],
          suspended \in [QueryCards -> BOOLEAN] :
          /\ cards = [c \in QueryCards |-> Stored(c, h[c], suspended[c]).card]
          /\ schedules = {Stored(c, h[c], suspended[c]).schedule :
                            c \in {x \in QueryCards : h[x] # NoHistory}}
          /\ reviews = [c \in CardIds |-> Stored(c, h[c], suspended[c]).reviews]
    /\ nextId = Cardinality(QueryCards) + 1
    /\ sess = [p \in Procs |-> Idle]
    /\ ops = 0
    /\ maint = 0
    /\ call = NoQuery
    /\ result = NoResult

QueryDecks == {0, 1, 2}
LimitIn == 0..MaxLimit

\* A query writes nothing to the database: each behaviour asks one query, of
\* any kind with any arguments, and records the request and its answer.

GetDueCards ==
    \E u \in Users, d \in QueryDecks, limit \in LimitIn :
       /\ call = NoQuery
       /\ call' = [op |-> "get_due_cards", user_id |-> u, deck_id |-> d,
                   limit |-> limit]
       /\ \E found \in get_due_cards(u, d, limit) : result' = [cards |-> found]
       /\ UNCHANGED sysVars

GetNewCards ==
    \E u \in Users, d \in QueryDecks, limit \in LimitIn :
       /\ call = NoQuery
       /\ call' = [op |-> "get_new_cards", user_id |-> u, deck_id |-> d,
                   limit |-> limit]
       /\ \E found \in get_new_cards(u, d, limit) : result' = [cards |-> found]
       /\ UNCHANGED sysVars

GetDeckStats ==
    \E u \in Users, d \in QueryDecks :
       /\ call = NoQuery
       /\ call' = [op |-> "get_deck_stats", user_id |-> u, deck_id |-> d,
                   limit |-> 0]
       /\ result' = get_deck_stats(u, d)
       /\ UNCHANGED sysVars

GetForecast ==
    \E u \in Users, days \in 0..MaxForecastDays :
       /\ call = NoQuery
       /\ call' = [op |-> "get_forecast", user_id |-> u, deck_id |-> 0,
                   limit |-> days]
       /\ result' = get_forecast(u, days)
       /\ UNCHANGED sysVars

NextQuery == GetDueCards \/ GetNewCards \/ GetDeckStats \/ GetForecast

SpecQuery == QueryInit /\ [][NextQuery]_vars

-----------------------------------------------------------------------------
(* Claims about the queries (SpecQuery).                                    *)

Asked(op) == call.op = op

NoDuplicates(s) == \A i, j \in DOMAIN s : i # j => s[i] # s[j]

\* the card is due for the learner: not suspended, with a schedule of the
\* learner whose next_review has come
IsDue(user_id, c) ==
    /\ ~cards[c].is_suspended
    /\ \E r \in schedules :
          r.user_id = user_id /\ r.card_id = c /\ r.next_review <= now

InScope(deck_id, c) == deck_id = 0 \/ cards[c].deck_id = deck_id

\* next_review of the one schedule of a card
DueAt(c) == (CHOOSE r \in schedules : r.card_id = c).next_review

\* C15: get_due_cards returns only cards that are not suspended and have a
\* schedule of the owner with next_review <= now, of the deck when one is
\* given, each once, in ascending next_review order, limit of them or all
\* when fewer are due, and no due card left out is due earlier than a
\* returned one.
C15_DueCards ==
    Asked("get_due_cards") =>
       LET found == result.cards
           due   == {c \in DOMAIN cards :
                       IsDue(call.user_id, c) /\ InScope(call.deck_id, c)}
       IN  /\ Range(found) \subseteq due
           /\ NoDuplicates(found)
           /\ Len(found) = Min(call.limit, Cardinality(due))
           /\ \A i, j \in DOMAIN found : i < j => DueAt(found[i]) <= DueAt(found[j])
           /\ \A c \in due \ Range(found) :
                 \A i \in DOMAIN found : DueAt(found[i]) <= DueAt(c)

\* more cards are due than the limit, the one returned is due earlier than one
\* left out, and a card due for the other learner only is not returned
C15_Witness ==
    /\ Asked("get_due_cards")
    /\ call.limit = 1
    /\ Len(result.cards) = 1
    /\ \E c \in DOMAIN cards :
          /\ IsDue(call.user_id, c) /\ InScope(call.deck_id, c)
          /\ DueAt(result.cards[1]) < DueAt(c)
    /\ \E c \in DOMAIN cards, u \in Users :
          u # call.user_id /\ IsDue(u, c) /\ InScope(call.deck_id, c)

\* the learner has a schedule for the card
HasSchedule(user_id, c) ==
    \E r \in schedules : r.user_id = user_id /\ r.card_id = c

\* the learner has reviewed the card
HasReviewed(user_id, c) == HasSchedule(user_id, c) /\ reviews[c].done > 0

IsNew(user_id, c) == c \in NewCards(user_id, cards[c].deck_id)

-----------------------------------------------------------------------------
(* SpecSession: get_study_session of learner 1 on deck 1.  The deck is      *)
(* drawn in the initial state: some cards due for the learner (the card     *)
(* with the higher id due earlier), some new, one reviewed and due later,   *)
(* one suspended.  The call fetches the two pools with get_due_cards and    *)
(* get_new_cards, then runs its while loop, one iteration a step, and       *)
(* returns.                                                                 *)

MaxDueCards == 11       \* cards of the deck due for the learner
MaxNewCards == 3        \* cards of the deck new for the learner
ReviewsPerNew == 5

DueIds(nd) == 1..nd
NewIds(nd, nn) == (nd + 1)..(nd + nn)
LaterId(nd, nn) == nd + nn + 1
SuspendedId(nd, nn) == nd + nn + 2

DeckCard == [NoCard EXCEPT !.deck_id = 1]

SessionInit ==
    /\ now = MaxTime
    /\ \E nd \in 0..MaxDueCards, nn \in 0..MaxNewCards :
          LET later == Reviewed([schedule |-> NewSchedule(LaterId(nd, nn), 1,
                                                          LaterId(nd, nn), now),
                                 card |-> DeckCard, reviews |-> NoReviews],
                                1, 4, now)
          IN  /\ cards = [c \in 1..SuspendedId(nd, nn) |->
                            IF c = LaterId(nd, nn) THEN later.card
                            ELSE IF c = SuspendedId(nd, nn)
                                 THEN [DeckCard EXCEPT !.is_suspended = TRUE]
                                 ELSE DeckCard]
              /\ schedules = {NewSchedule(c, 1, c, nd - c) : c \in DueIds(nd)}
                                \cup {later.schedule}
              /\ nextId = SuspendedId(nd, nn) + 1
    /\ reviews = [c \in CardIds |-> NoReviews]
    /\ sess = [p \in Procs |-> Idle]
    /\ ops = 0
    /\ maint = 0
    /\ call = NoQuery
    /\ result = NoResult

\* get_study_session up to its loop: the two pools and the loop variables
BeginStudySession ==
    /\ call = NoQuery
    /\ \E new_cards_limit \in 0..MaxNewCards, review_cards_limit \in 0..MaxDueCards :
          /\ call' = [op |-> "get_study_session", user_id |-> 1, deck_id |-> 1,
                      limit |-> <<new_cards_limit, review_cards_limit>>]
          /\ \E due_cards \in get_due_cards(1, 1, review_cards_limit),
                new_cards \in get_new_cards(1, 1, new_cards_limit) :
                result' = [pc |-> "while", due_cards |-> due_cards,
                           new_cards |-> new_cards, all_cards |-> <<>>,
                           new_idx |-> 0, review_idx |-> 0]
    /\ UNCHANGED sysVars

\* for _ in range(n): append the next due card when one is left
RECURSIVE AddReviews(_, _)
AddReviews(st, n) ==
    IF n = 0 THEN st
    ELSE AddReviews(IF st.review_idx < Len(st.due_cards)
                    THEN [st EXCEPT !.all_cards = Append(@, st.due_cards[st.review_idx + 1]),
                                    !.review_idx = @ + 1]
                    ELSE st,
                    n - 1)

\* the mutant of the loop body that adds a new card only once the due cards
\* are used up
WhileBody_NewLast(st) ==
    LET reviewed == AddReviews(st, ReviewsPerNew)
    IN  IF reviewed.review_idx >= Len(reviewed.due_cards)
           /\ reviewed.new_idx < Len(reviewed.new_cards)
        THEN [reviewed EXCEPT !.all_cards = Append(@, reviewed.new_cards[reviewed.new_idx + 1]),
                              !.new_idx = @ + 1]
        ELSE reviewed

\* the body of the while loop: up to 5 due cards, then 1 new card
WhileBody(st) ==
    LET reviewed == AddReviews(st, ReviewsPerNew)
    IN  IF reviewed.new_idx < Len(reviewed.new_cards)
        THEN [reviewed EXCEPT !.all_cards = Append(@, reviewed.new_cards[reviewed.new_idx + 1]),
                              !.new_idx = @ + 1]
        ELSE reviewed

WhileCondition(st) ==
    st.new_idx < Len(st.new_cards) \/ st.review_idx < Len(st.due_cards)

SessionRound ==
    /\ Asked("get_study_session")
    /\ result.pc = "while"
    /\ WhileCondition(result)
    /\ result' = WhileBody(result)
    /\ UNCHANGED <<call, sysVars>>

\* the returned dict (the pools are kept beside it)
SessionReturn ==
    /\ Asked("get_study_session")
    /\ result.pc = "while"
    /\ ~WhileCondition(result)
    /\ result' = [pc |-> "done", due_cards |-> result.due_cards,
                  new_cards |-> result.new_cards,
                  cards |-> result.all_cards,
                  new_count |-> Len(result.new_cards),
                  review_count |-> Len(result.due_cards),
                  total_count |-> Len(result.all_cards)]
    /\ UNCHANGED <<call, sysVars>>

NextSession == BeginStudySession \/ SessionRound \/ SessionReturn

\* the call runs to its end once made
SpecSession ==
    /\ SessionInit
    /\ [][NextSession]_vars
    /\ WF_vars(BeginStudySession) /\ WF_vars(SessionRound) /\ WF_vars(SessionReturn)

Returned == Asked("get_study_session") /\ result.pc = "done"

\* the cards of s that belong to the pool, in the order s has them
OfPool(s, pool) == SelectSeq(s, LAMBDA c : c \in Range(pool))

\* the list the claim describes: groups of up to 5 due cards followed by 1
\* new card: the i-th due card comes after the new cards of the full groups
\* before it, the j-th new card after the due cards of j groups
Grouped(s, due, new) ==
    /\ Len(s) = Len(due) + Len(new)
    /\ \A i \in DOMAIN due :
          s[i + Min((i - 1) \div 5, Len(new))] = due[i]
    /\ \A j \in DOMAIN new :
          s[j + Min(5 * j, Len(due))] = new[j]

SessionResult ==
    Returned =>
       /\ result.new_count = Len(result.new_cards)
       /\ result.review_count = Len(result.due_cards)
       /\ result.total_count = result.new_count + result.review_count
       /\ result.total_count = Len(result.cards)
       /\ NoDuplicates(result.cards)
       /\ Range(result.cards) = Range(result.due_cards) \cup Range(result.new_cards)
       /\ Range(result.due_cards) \cap Range(result.new_cards) = {}
       /\ OfPool(result.cards, result.due_cards) = result.due_cards
       /\ OfPool(result.cards, result.new_cards) = result.new_cards
       /\ Grouped(result.cards, result.due_cards, result.new_cards)

\* C17: get_study_session terminates for every pair of pools, and the list it
\* returns holds every fetched due card and every fetched new card exactly
\* once (total_count = new_count + review_count), each pool in its own order,
\* in groups of up to 5 due cards followed by 1 new card.
C17_StudySession == []SessionResult /\ <>Returned

\* a session of more than two groups of due cards and more than one new card
\* has been returned
C17_Witness ==
    /\ Returned
    /\ result.review_count > 2 * ReviewsPerNew
    /\ result.new_count > 1
    /\ result.cards[ReviewsPerNew + 1] \in Range(result.new_cards)

-----------------------------------------------------------------------------
(* Claims about the statistics and the forecast (SpecQuery).                *)

InDeck(deck_id) ==
    {c \in DOMAIN cards : cards[c].deck_id = deck_id /\ ~cards[c].is_suspended}

\* the counts of get_deck_stats are those of the cards of the deck
DeckCounts ==
    Asked("get_deck_stats") =>
       LET deck == InDeck(call.deck_id)
       IN  /\ result.total = Cardinality(deck)
           /\ result.new = Cardinality({c \in deck : ~HasSchedule(call.user_id, c)})
           /\ result.due = Cardinality({c \in deck : IsDue(call.user_id, c)})
           /\ result.mastered = Cardinality({c \in deck : cards[c].is_mastered})
           /\ result.learning = result.total - result.mastered - result.new
           /\ result.due + result.new <= result.total

\* C18: get_deck_stats reports total, new, due and mastered as the counts of
\* the non-suspended cards of the deck, all of them, those without a schedule
\* of the owner, those due for the owner and those flagged mastered, and
\* learning = total - mastered - new; all five counts are non-negative and
\* due + new <= total.
C18_DeckStats ==
    /\ DeckCounts
    /\ Asked("get_deck_stats") =>
          /\ result.total >= 0 /\ result.new >= 0 /\ result.due >= 0
          /\ result.mastered >= 0 /\ result.learning >= 0

\* the schedules of the learner that fall due on day k from now
DueOnDay(user_id, k) ==
    {r \in schedules :
       /\ r.user_id = user_id
       /\ now + k * TicksPerDay <= r.next_review
       /\ r.next_review < now + (k + 1) * TicksPerDay}

\* C19: get_forecast succeeds and returns `days` entries, entry k being the
\* number of the owner's schedules with now + k days <= next_review <
\* now + (k + 1) days (overdue schedules and other owners' schedules in
\* none, every count 0 when there are no schedules).
C19_Forecast ==
    Asked("get_forecast") =>
       /\ result.error = "none"
       /\ Len(result.forecast) = call.limit
       /\ \A k \in 0..(call.limit - 1) :
             result.forecast[k + 1] = Cardinality(DueOnDay(call.user_id, k))

-----------------------------------------------------------------------------
(* Claims about qualities outside 0..5 (SpecApi, whose process_review calls *)
(* carry the qualities -1 and 6).                                           *)

InRange(quality) == IF quality < 0 THEN 0 ELSE IF quality > 5 THEN 5 ELSE quality

OutOfRange(p) == sess[p].op = "process_review" /\ sess[p].quality \notin 0..5

\* C20: a review with a quality outside 0..5 is not rejected and has the
\* effect of the same review with the quality 0 (below 0) or 5 (above 5):
\* calculate_next_review returns the same pair for both, process_review
\* leaves the schedule and the card statistics that update_schedule and the
\* statistics block give for the in-range quality, it fails only where
\* get_or_create_schedule fails, before the quality is looked at, and every
\* stored last_quality is in 0..5.
C20_ClampedQuality ==
    /\ ops = 0 /\ now = 0 /\ maint = 0 =>
          \A q \in QualityIn \ (0..5), e \in EaseIn, i \in IntervalIn,
             r \in RepsIn, up \in BOOLEAN :
             calculate_next_review(q, e, i, r, up)
                = calculate_next_review(InRange(q), e, i, r, up)
    /\ \A r \in schedules : r.last_quality \in (0..5) \cup {None}
    /\ \A p \in Procs :
          OutOfRange(p) =>
             /\ sess[p].pc \in {"commit", "raise"} =>
                   /\ \E up \in BOOLEAN :
                         sess[p].schedule =
                            update_schedule(sess[p].loaded, InRange(sess[p].quality),
                                            sess[p].schedule.last_reviewed,
                                            sess[p].schedule.last_reviewed, up)
                   /\ sess[p].hasCard =>
                         sess[p].card = UpdateCard(sess[p].cardLoaded,
                                                   InRange(sess[p].quality),
                                                   sess[p].schedule)
             /\ sess[p].pc = "failed" => sess[p].schedule = NoRow

\* process_review with quality 6 has been committed and the schedule holds
\* last_quality 5
C20_Witness ==
    \E p \in Procs :
       /\ OutOfRange(p)
       /\ sess[p].quality = 6
       /\ sess[p].pc = "done"
       /\ \E r \in schedules :
             /\ r.user_id = sess[p].user_id /\ r.card_id = sess[p].card_id
             /\ r.last_quality = 5 /\ r.repetitions > 0

-----------------------------------------------------------------------------
(* Relations between calls of the pure step (SpecPure): the call made is    *)
(* compared with the calls that differ from it in one argument.             *)

\* the interval calculate_next_review returns for the arguments of the call
\* made, with quality q and previous interval i
IntervalFor(q, i, up) ==
    calculate_next_review(q, call.ease_factor, i, call.repetitions, up).interval

EaseFor(q) ==
    calculate_next_review(q, call.ease_factor, call.interval, call.repetitions,
                          call.up).ease

\* C21: for repetitions >= 2 and a quality >= 4, at a fixed ease factor, the
\* returned interval does not decrease when the incoming interval grows, and
\* it is at least the incoming interval when ease_factor >= 1.0; a good
\* review of (interval 30, repetitions 10, ease 2.5) returns more than 30.
\* (Two calls with the same product max(1, interval) * ease round the same
\* way.)
C21_MatureGrowth ==
    /\ Called /\ call.repetitions >= 2 /\ call.quality >= 4 =>
          /\ \A i \in IntervalIn, up \in BOOLEAN :
                /\ i >= call.interval
                /\ (Max(1, i) = Max(1, call.interval) => up = call.up)
                => IntervalFor(call.quality, i, up) >= result.interval
          /\ call.ease_factor >= 100 => result.interval >= call.interval
    /\ Called /\ call.quality = 4 /\ call.ease_factor = 250 =>
          calculate_next_review(4, 250, 30, 10, call.up).interval > 30

C21_Witness ==
    /\ Called
    /\ call.repetitions >= 2
    /\ call.quality = 4
    /\ call.ease_factor = 250
    /\ call.interval = 10
    /\ result.interval = 25

\* C22: at fixed ease factor, interval and repetitions a better rating never
\* schedules sooner and never gives a lower ease: interval and ease for
\* quality 5 >= those for quality 4 >= those for quality 3.  (Two calls with
\* the same product interval * ease round the same way.)
C22_BetterNotSooner ==
    Called /\ call.quality = 5 =>
       /\ result.ease >= EaseFor(4)
       /\ EaseFor(4) >= EaseFor(3)
       /\ \A up4, up3 \in BOOLEAN :
             /\ (EaseFor(4) = result.ease => up4 = call.up)
             /\ (EaseFor(3) = EaseFor(4) => up3 = up4)
             => /\ result.interval >= IntervalFor(4, call.interval, up4)
                /\ IntervalFor(4, call.interval, up4)
                      >= IntervalFor(3, call.interval, up3)

C22_Witness ==
    /\ Called
    /\ call.quality = 5
    /\ call.repetitions >= 2
    /\ call.ease_factor = 250
    /\ call.interval = 10
    /\ result.interval = 26
    /\ IntervalFor(4, 10, FALSE) = 25
    /\ IntervalFor(3, 10, FALSE) = 24

-----------------------------------------------------------------------------
(* SpecCycle: one learner reviewing one card through record_review, one     *)
(* request at a time, with the ratings "again", "good" and "easy" and enough *)
(* requests to master the card, fail it and master it again, and to take    *)
(* next_review to the last date datetime can hold.                          *)

MaxOpsCycle == 14       \* requests begun in one behaviour of SpecCycle
CycleRatingIn == {"again", "good", "easy"}

CycleRecordReview ==
    \E p \in Procs, rating \in CycleRatingIn :
       AllIdle /\ ops < MaxOpsCycle /\ BeginRecordReview(p, 1, 1, rating)

NextCycle ==
    \/ CycleRecordReview
    \/ Select
    \/ Insert
    \/ ApplyAtOnce
    \/ CommitSession
    \/ RollbackSession
    \/ Close

SpecCycle == Init /\ [][NextCycle]_vars

\* no review begun is refused, and every review begun is recorded
NoneRefused ==
    /\ \A p \in Procs : sess[p].pc # "failed"
    /\ AllIdle => reviews[1].done = ops

\* a recorded review with quality < 3 leaves repetitions = 0, interval = 1
\* and the card not mastered
FailureRegresses ==
    \A p \in Procs :
       sess[p].pc = "done" /\ sess[p].quality < 3 =>
          /\ \A r \in ScheduleOf(1) : r.repetitions = 0 /\ r.interval = 1
          /\ ~cards[1].is_mastered

\* from a regressed schedule, MasterReviews "easy" reviews master the card
MasteryRecoverable ==
    AllIdle =>
       \A r \in ScheduleOf(1) :
          r.repetitions = 0 =>
             Reviewed([schedule |-> r, card |-> cards[1],
                       reviews |-> reviews[1]],
                      MasterReviews, 5, now).card.is_mastered

\* C24: no state of a schedule is final: every review begun is recorded,
\* none is refused, whatever the schedule has become; a recorded review with
\* quality < 3 leaves repetitions = 0, interval = 1 and the card not
\* mastered; and from the regressed state successful reviews lead to a
\* mastered card again.
C24_NoTerminalState ==
    /\ NoneRefused
    /\ FailureRegresses
    /\ MasteryRecoverable

\* the card was mastered by 4 "easy" reviews, failed, and is mastered again
\* by 4 more (the ease is back at 2.5 only when all 8 were "easy")
MasteredFailedMastered ==
    /\ AllIdle
    /\ reviews[1].done = 9
    /\ reviews[1].failed = 1
    /\ reviews[1].streak = 4
    /\ cards[1].is_mastered
    /\ cards[1].times_incorrect = 1
    /\ \E r \in ScheduleOf(1) : r.easiness = 250

\* a review was refused: update_schedule raised OverflowError
ReviewRefused ==
    \E p \in Procs : sess[p].pc = "failed" /\ sess[p].quality >= 3

-----------------------------------------------------------------------------
(* Claims about what writes a schedule (SpecApi).                           *)

Scheduling(r) == <<r.easiness, r.interval, r.repetitions, r.next_review>>

\* session p commits in this step, for the pair of row r
CommitsFor(p, r) ==
    /\ sess[p].pc = "commit"
    /\ sess'[p].pc = "done"
    /\ sess[p].user_id = r.user_id
    /\ sess[p].card_id = r.card_id

\* C25: a schedule appears only in the commit of a request that got or
\* created it for its (owner, card); its ease, interval, repetitions and
\* next_review change only in the commit of a review of that (owner, card),
\* not in a maintenance run nor while time passes; and no step removes it.
C25_Frame ==
    [][/\ \A r \in schedules : \E n \in schedules' : n.id = r.id
       /\ \A n \in schedules' :
             /\ (\A r \in schedules : r.id # n.id) =>
                   \E p \in Procs : CommitsFor(p, n) /\ sess[p].created
             /\ \A r \in schedules :
                   r.id = n.id /\ Scheduling(r) # Scheduling(n) =>
                      \E p \in Procs :
                         CommitsFor(p, n) /\ sess[p].op # "get_or_create"]_vars

-----------------------------------------------------------------------------
(* SpecDeep: one learner reviewing one card through process_review with     *)
(* every quality 0..5, one request at a time, maintenance runs and long     *)
(* waits in between.                                                        *)

MaxOpsDeep == 5         \* requests begun in one behaviour of SpecDeep
DeepQualityIn == 0..5

DeepProcessReview ==
    \E p \in Procs, q \in DeepQualityIn :
       AllIdle /\ ops < MaxOpsDeep /\ BeginProcessReview(p, 1, 1, q)

NextDeep ==
    \/ DeepProcessReview
    \/ Select
    \/ Insert
    \/ ApplyAtOnce
    \/ CommitSession
    \/ Close
    \/ Maintenance
    \/ Wait

SpecDeep == Init /\ [][NextDeep]_vars

-----------------------------------------------------------------------------
(* Claims about the stored schedule along its reviews.                      *)

\* session p commits a review in this step
CommitsReview(p) ==
    /\ sess[p].pc = "commit"
    /\ sess'[p].pc = "done"
    /\ sess[p].op # "get_or_create"

\* C26: when a successful review (quality >= 3) is recorded on a schedule
\* whose last recorded review was successful too, the stored interval does
\* not decrease.
C26_RunNeverShrinks ==
    [][\A p \in Procs :
          CommitsReview(p) /\ Clamp(sess[p].quality) >= 3 =>
             \A r \in schedules, n \in schedules' :
                r.id = n.id /\ r.id = sess[p].schedule.id
                   /\ r.last_quality # None /\ r.last_quality >= 3
                => n.interval >= r.interval]_vars

\* C29: every stored schedule has interval >= 1, interval 1 with repetitions
\* 0 or 1, interval 6 with repetitions 2 and interval >= 8 with repetitions
\* >= 3.
C29_IntervalByStreak ==
    \A r \in schedules :
       /\ r.interval >= 1
       /\ r.repetitions = 0 => r.interval = 1
       /\ r.repetitions = 1 => r.interval = 1
       /\ r.repetitions = 2 => r.interval = 6
       /\ r.repetitions >= 3 => r.interval >= 8

\* session p has run update_schedule on the schedule it loaded
Updated(p) ==
    sess[p].op # "get_or_create" /\ sess[p].pc \in {"commit", "raise"}

\* C27: the interval and the easiness that a review sets on its schedule
\* (update_schedule) are the pair that calculate_next_review returns for the
\* quality and the easiness, interval and repetitions the schedule had before
\* the review.
C27_AgreesWithPureStep ==
    \A p \in Procs :
       Updated(p) =>
          \E up \in BOOLEAN :
             [interval |-> sess[p].schedule.interval,
              ease     |-> sess[p].schedule.easiness]
                = calculate_next_review(sess[p].quality, sess[p].loaded.easiness,
                                        sess[p].loaded.interval,
                                        sess[p].loaded.repetitions, up)

\* a review with quality 3 of a schedule past its learning steps and lowered
\* to the floor by maintenance or failed reviews
C27_Witness ==
    \E p \in Procs :
       /\ Updated(p)
       /\ sess[p].quality = 3
       /\ sess[p].loaded.repetitions >= 2
       /\ sess[p].loaded.easiness < 144
       /\ sess[p].schedule.easiness = 130
       /\ sess[p].schedule.interval > sess[p].loaded.interval

-----------------------------------------------------------------------------
(* SpecDue: one learner and one card, get_or_create_schedule and            *)
(* record_review calls one at a time, the clock moving tick by tick between *)
(* the steps and between the two clock readings of update_schedule.         *)

MaxOpsDue == 3          \* requests begun in one behaviour of SpecDue
DueRatingIn == {"again", "good"}

DueGetOrCreate ==
    \E p \in Procs : AllIdle /\ ops < MaxOpsDue /\ BeginGetOrCreate(p, 1, 1)

DueRecordReview ==
    \E p \in Procs, rating \in DueRatingIn :
       AllIdle /\ ops < MaxOpsDue /\ BeginRecordReview(p, 1, 1, rating)

ClockTick == Tick(1)

NextDue ==
    \/ DueGetOrCreate
    \/ DueRecordReview
    \/ Select
    \/ Insert
    \/ Apply
    \/ CommitSession
    \/ Close
    \/ ClockTick

SpecDue == Init /\ [][NextDue]_vars

\* SpacedRepetitionSchedule.is_due
is_due(self) == now >= self.next_review

\* the card is in some answer of get_due_cards for its owner
Listed(r) ==
    \E found \in get_due_cards(r.user_id, 0, 1) : r.card_id \in Range(found)

\* is_due and get_due_cards agree, and a schedule not yet reviewed is due
DueWhenNextReviewCome ==
    \A r \in schedules :
       /\ is_due(r) <=> Listed(r)
       /\ r.last_reviewed = None => is_due(r)

\* C28: a card reviewed at time t (last_reviewed) with interval d left is
\* not due, by is_due and by get_due_cards, before t + d days and is due
\* from t + d days on; a schedule created and not yet reviewed is due.
C28_DueAfterInterval ==
    /\ DueWhenNextReviewCome
    /\ \A r \in schedules :
          r.last_reviewed # None =>
             (is_due(r) <=> now >= r.last_reviewed + r.interval * TicksPerDay)

-----------------------------------------------------------------------------
(* Claims about the card statistics (Spec: two sessions at once).           *)

\* C30: every card has times_studied = times_correct + times_incorrect, and
\* the three count the reviews recorded for it: all of them, those with
\* quality >= 3, those with quality < 3, also when two reviews of the card
\* run at once.
C30_CardCounts ==
    \A c \in DOMAIN cards :
       /\ cards[c].times_studied = cards[c].times_correct + cards[c].times_incorrect
       /\ cards[c].times_studied = reviews[c].done
       /\ cards[c].times_incorrect = reviews[c].failed

====
